---- MODULE Spec2Model ----
(***************************************************************************)
(* State-machine model of sys/stm32/syscall.c (DiscoBSD): the supervisor-  *)
(* call entry relay SVC_Handler, the exception-transfer trampoline         *)
(* PendSV_Handler (one step per instruction) and the dispatcher syscall()  *)
(* (one step per statement group, labelled by its first source line).      *)
(*                                                                         *)
(* 32-bit machine words are pairs <<hi, lo>> of 16-bit halves, so that     *)
(* unsigned arithmetic wraps modulo 2^32 exactly as u_int does.            *)
(***************************************************************************)
EXTENDS Integers, Naturals, Sequences, FiniteSets, TLC

\* ------------------------------------------------------------------------
\* 32-bit words
\* ------------------------------------------------------------------------

Half == 65536

W(hi, lo) == <<hi, lo>>

Zero32 == W(0, 0)

Add32(a, b) ==
    LET s == a[2] + b[2]
    IN  <<(a[1] + b[1] + (s \div Half)) % Half, s % Half>>

Sub32(a, b) ==
    LET d      == a[2] - b[2]
        borrow == IF d < 0 THEN 1 ELSE 0
    IN  <<(a[1] - b[1] - borrow + Half) % Half, (d + Half) % Half>>

Lt32(a, b) == a[1] < b[1] \/ (a[1] = b[1] /\ a[2] < b[2])

RECURSIVE And16(_, _)
And16(x, y) ==
    IF x = 0 \/ y = 0 THEN 0
    ELSE (x % 2) * (y % 2) + 2 * And16(x \div 2, y \div 2)

Not16(x) == (Half - 1) - x

And32(a, b) == <<And16(a[1], b[1]), And16(a[2], b[2])>>

Not32(a) == <<Not16(a[1]), Not16(a[2])>>

\* a | b  ==  ~(~a & ~b)
Or32(a, b) == Not32(And32(Not32(a), Not32(b)))

\* ------------------------------------------------------------------------
\* Program constants (machine and kernel headers)
\* ------------------------------------------------------------------------

INSN_SZ == W(0, 2)                      \* Thumb instruction width

PSR_C == W(8192, 0)                     \* 0x20000000, carry flag

SCB_CCR_STKALIGN_Msk == W(0, 512)       \* 0x00000200, bit 9

ERESTART == W(65535, 65535)             \* (int) -1

EJUSTRETURN == W(65535, 65534)          \* (int) -2

EINTR == W(0, 4)

EFAULT == W(0, 14)

SIGSEGV == 11

\* The per-process kernel state block u occupies [UBase, UEnd).
UBase == W(8192, 0)                     \* &u

USize == W(0, 1024)                     \* sizeof(u)

UEnd == Add32(UBase, USize)             \* (unsigned) &u + sizeof(u)

USER_DATA_START == W(8192, 32768)       \* 0x20008000

USER_DATA_END == W(8194, 0)             \* 0x20020000

\* ------------------------------------------------------------------------
\* The syscall table
\* ------------------------------------------------------------------------

nsysent == 4

sysent ==
    << [sy_narg |-> 0, sy_call |-> "h0"],
       [sy_narg |-> 3, sy_call |-> "h1"],
       [sy_narg |-> 5, sy_call |-> "h2"],
       [sy_narg |-> 6, sy_call |-> "h3"] >>

\* What lies past the table's end: not an entry of the table.
BeyondTable == [sy_narg |-> 6, sy_call |-> "wild"]

\* callp->...  for callp == &sysent[i]
SysentAt(i) == IF i \in 0 .. (Len(sysent) - 1) THEN sysent[i + 1] ELSE BeyondTable

\* ------------------------------------------------------------------------
\* User memory: the program text holding the svc instructions, and the data
\* and stack region [USER_DATA_START, USER_DATA_END)
\* ------------------------------------------------------------------------

\* <<address of an svc instruction, its 8-bit immediate>>
SvcSites ==
    { <<W(2050, 256), 0>>,   <<W(2050, 260), 1>>, <<W(2050, 264), 2>>,
      <<W(2050, 268), 3>>,   <<W(2050, 272), 4>>, <<W(2050, 276), 255>> }

\* The little-endian word at address a: at an svc site the low halfword is
\* the svc instruction 0xDF00 | imm8 and the high halfword the instruction
\* after it (a nop, 0xBF00); elsewhere a word that tells the address.
UserWord(a) ==
    IF \E s \in SvcSites : s[1] = a
    THEN LET s == CHOOSE t \in SvcSites : t[1] = a IN W(48896, 57088 + s[2])
    ELSE W(42330, a[2])

\* baduaddr(addr): addr is not in the user data/stack region
baduaddr(a) == ~(~Lt32(a, USER_DATA_START) /\ Lt32(a, USER_DATA_END))

\* ------------------------------------------------------------------------
\* Bounds and input sets
\* ------------------------------------------------------------------------

MaxTicks == 1

\* p_daddr + u_dsize of the modelled process: its data segment ends 40
\* bytes below the top of the user data region
DataEnd == Sub32(USER_DATA_END, W(0, 40))

\* Return addresses stacked by the hardware: one instruction past each svc.
TrapPCs == { Add32(s[1], INSN_SZ) : s \in SvcSites }

\* User stack pointers after hardware stacking (PSP).
SpSet ==
    { Sub32(DataEnd, W(0, 8)), DataEnd, Add32(USER_DATA_END, W(0, 8)) }

\* Kernel stack pointers (MSP) at exception entry; the trap frame ends up
\* 64 bytes below.
MspSet == { Add32(UEnd, W(0, 60)), Add32(UEnd, W(0, 64)) }

R0Set == { W(65535, 10) }

\* Stacked xPSR values: carry and the alignment-padding bit, set or clear.
PsrSet == { W(256, 0), W(8192 + 256, 512) }

\* What a handler may leave in u.u_rval and u.u_error.
RvalSet == { W(0, 7) }

HandlerErrs == { EINTR, ERESTART, EJUSTRETURN }

\* What signal delivery leaves in u.u_error before jumping to the checkpoint.
AbortErrs == { EINTR, ERESTART }

\* ------------------------------------------------------------------------
\* State
\* ------------------------------------------------------------------------

VARIABLES
    pc,        \* control position: "user", "svc", "t<line>", "s<line>", "h_*", "halted"
    intr,      \* interrupts enabled (PRIMASK clear)
    r,         \* core registers r0..r12
    msp,       \* main (kernel) stack pointer
    psp,       \* process (user) stack pointer
    ustack,    \* the 8 words of user memory at ustackAt (hardware exception frame)
    ustackAt,  \* address of those words
    ksave,     \* r4-r11 as pushed on the kernel stack by the trampoline
    frame,     \* struct trapframe on the kernel stack
    fp,        \* syscall()'s argument: the address of the trap frame
    u,         \* struct user u
    p,         \* *u.u_procp
    syst,      \* syscall() local
    code,      \* syscall() local
    callp,     \* syscall() local: index of the selected table entry
    psig,      \* syscall() local
    uret,      \* user registers popped by the hardware on exception return
    \* observation of the collaborators, per trap
    frame0,    \* the frame as passed to syscall()
    stimeIn,   \* u.u_ru.ru_stime when syscall() was entered
    dirtyIn,   \* u held an error code and a return value of an earlier trap
               \* when syscall() was entered
    ckpt,      \* setjmp(&u.u_qsave) was executed in this trap
    rvalH,     \* u.u_rval when result encoding started
    frameH,    \* the frame when result encoding started
    calls,     \* handlers invoked
    sigs,      \* signals posted by psignal(): <<process, signal>>
    rets,      \* userret() calls: <<pc, syst>>
    reads,     \* table indices read through callp
    aborted    \* the handler was left by a jump to the checkpoint

vars == <<pc, intr, r, msp, psp, ustack, ustackAt, ksave, frame, fp, u, p,
          syst, code, callp, psig, uret, frame0, stimeIn, dirtyIn, ckpt, rvalH,
          frameH, calls, sigs, rets, reads, aborted>>

hist == <<frame0, stimeIn, dirtyIn, ckpt, rvalH, frameH, calls, sigs, rets, reads, aborted>>

NoFrame ==
    [tf_r0 |-> Zero32, tf_r1 |-> Zero32, tf_r2 |-> Zero32, tf_r3 |-> Zero32,
     tf_sp |-> Zero32, tf_lr |-> Zero32, tf_pc |-> Zero32, tf_psr |-> Zero32]

NoUret == [lr |-> Zero32, pc |-> Zero32, psr |-> Zero32, sp |-> Zero32]

\* Caller-saved registers after a C call hold nothing the caller may use.
Junk == W(57005, 48879)

InitU ==
    [u_error |-> Zero32, u_frame |-> Zero32, u_code |-> Zero32,
     u_arg |-> [i \in 0 .. 5 |-> Zero32], u_rval |-> Zero32,
     u_ssize |-> W(0, 32), u_dsize |-> Sub32(DataEnd, USER_DATA_START), ru_stime |-> 0,
     u_qsave |-> "unset"]

InitP ==
    [p_daddr |-> USER_DATA_START, p_ssize |-> W(0, 32),
     p_saddr |-> Sub32(USER_DATA_END, W(0, 32))]

Init ==
    /\ pc = "user"
    /\ intr = TRUE
    /\ r = [i \in 0 .. 12 |-> Zero32]
    /\ msp = Add32(UEnd, W(0, 64))
    /\ psp = Sub32(USER_DATA_END, W(0, 8))
    /\ ustack = [i \in 1 .. 8 |-> Zero32]
    /\ ustackAt = Zero32
    /\ ksave = <<>>
    /\ frame = NoFrame
    /\ fp = Zero32
    /\ u = InitU
    /\ p = InitP
    /\ syst = 0
    /\ code = 0
    /\ callp = 0
    /\ psig = 0
    /\ uret = NoUret
    /\ frame0 = NoFrame
    /\ stimeIn = 0
    /\ dirtyIn = FALSE
    /\ ckpt = FALSE
    /\ rvalH = Zero32
    /\ frameH = NoFrame
    /\ calls = <<>>
    /\ sigs = <<>>
    /\ rets = <<>>
    /\ reads = {}
    /\ aborted = FALSE

\* ------------------------------------------------------------------------
\* Exception entry and the entry relay
\* ------------------------------------------------------------------------

\* A user thread executes svc: the hardware stacks r0-r3, ip, lr, pc, psr on
\* the process stack and enters Handler Mode on the main stack.
Trap ==
    /\ pc = "user"
    /\ \E r0 \in R0Set, upc \in TrapPCs, upsr \in PsrSet, usp \in SpSet,
          ksp \in MspSet :
          /\ ustack' = <<r0, W(0, 11), W(0, 12), W(0, 13), W(0, 112),
                         W(2050, 1), upc, upsr>>
          /\ ustackAt' = usp
          /\ psp' = usp
          /\ msp' = ksp
          /\ r' = [i \in 0 .. 12 |->
                     CASE i = 0 -> r0
                       [] i \in 1 .. 3 -> W(0, 10 + i)
                       [] i = 12 -> W(0, 112)
                       [] OTHER -> W(51966, i)]
    /\ pc' = "svc"
    /\ ksave' = <<>>
    /\ frame' = NoFrame
    /\ fp' = Zero32
    /\ syst' = 0
    /\ code' = 0
    /\ callp' = 0
    /\ psig' = 0
    /\ uret' = NoUret
    /\ frame0' = NoFrame
    /\ stimeIn' = 0
    /\ dirtyIn' = FALSE
    /\ ckpt' = FALSE
    /\ rvalH' = Zero32
    /\ frameH' = NoFrame
    /\ calls' = <<>>
    /\ sigs' = <<>>
    /\ rets' = <<>>
    /\ reads' = {}
    /\ aborted' = FALSE
    /\ UNCHANGED <<intr, u, p>>

\* SVC_Handler: pend PendSV and lower the priority mask; the hardware
\* tail-chains into PendSV_Handler.
SVC_Handler ==
    /\ pc = "svc"
    /\ pc' = "t55"
    /\ UNCHANGED <<intr, r, msp, psp, ustack, ustackAt, ksave, frame, fp, u,
                   p, syst, code, callp, psig, uret, hist>>

\* A hardware interrupt (the clock) taken while the kernel runs with
\* interrupts unmasked: it charges a tick of system time to the process and
\* returns to the interrupted instruction with every register restored.
Interrupt ==
    /\ intr
    /\ pc \notin {"user", "halted"}
    /\ u.ru_stime < MaxTicks
    /\ u' = [u EXCEPT !.ru_stime = @ + 1]
    /\ UNCHANGED <<pc, intr, r, msp, psp, ustack, ustackAt, ksave, frame, fp,
                   p, syst, code, callp, psig, uret, hist>>

\* ------------------------------------------------------------------------
\* PendSV_Handler, capture phase (lines 55-68)
\* ------------------------------------------------------------------------

\* words pushed by  push {r<lo>-r<hi>}, lowest register at the lowest address
RegWords(regs, lo, hi) == [i \in 1 .. (hi - lo + 1) |-> regs[lo + i - 1]]

\* registers after loading r<lo>.. from consecutive words
LoadRegs(regs, lo, words) ==
    [i \in 0 .. 12 |->
        IF i >= lo /\ i < lo + Len(words) THEN words[i - lo + 1] ELSE regs[i]]

\* the trap frame made of the eight words r2-r9
FrameOf(w) ==
    [tf_r0 |-> w[1], tf_r1 |-> w[2], tf_r2 |-> w[3], tf_r3 |-> w[4],
     tf_sp |-> w[5], tf_lr |-> w[6], tf_pc |-> w[7], tf_psr |-> w[8]]

WordsOf(f) ==
    <<f.tf_r0, f.tf_r1, f.tf_r2, f.tf_r3, f.tf_sp, f.tf_lr, f.tf_pc, f.tf_psr>>

\* cpsid i
T55_cpsid ==
    /\ pc = "t55"
    /\ intr' = FALSE
    /\ pc' = "t61"
    /\ UNCHANGED <<r, msp, psp, ustack, ustackAt, ksave, frame, fp, u, p,
                   syst, code, callp, psig, uret, hist>>

\* push {r4-r11}
T61_push ==
    /\ pc = "t61"
    /\ ksave' = RegWords(r, 4, 11)
    /\ msp' = Sub32(msp, W(0, 32))
    /\ pc' = "t62"
    /\ UNCHANGED <<intr, r, psp, ustack, ustackAt, frame, fp, u, p, syst, code,
                   callp, psig, uret, hist>>

\* mrs r1, PSP
T62_mrs ==
    /\ pc = "t62"
    /\ r' = [r EXCEPT ![1] = psp]
    /\ pc' = "t63"
    /\ UNCHANGED <<intr, msp, psp, ustack, ustackAt, ksave, frame, fp, u, p,
                   syst, code, callp, psig, uret, hist>>

\* ldmfd r1, {r2-r9}
T63_ldmfd ==
    /\ pc = "t63"
    /\ r[1] = ustackAt
    /\ r' = LoadRegs(r, 2, ustack)
    /\ pc' = "t64"
    /\ UNCHANGED <<intr, msp, psp, ustack, ustackAt, ksave, frame, fp, u, p,
                   syst, code, callp, psig, uret, hist>>

\* mov r6, r1
T64_mov ==
    /\ pc = "t64"
    /\ r' = [r EXCEPT ![6] = r[1]]
    /\ pc' = "t65"
    /\ UNCHANGED <<intr, msp, psp, ustack, ustackAt, ksave, frame, fp, u, p,
                   syst, code, callp, psig, uret, hist>>

\* push {r2-r9}
T65_push ==
    /\ pc = "t65"
    /\ frame' = FrameOf(RegWords(r, 2, 9))
    /\ msp' = Sub32(msp, W(0, 32))
    /\ pc' = "t67"
    /\ UNCHANGED <<intr, r, psp, ustack, ustackAt, ksave, fp, u, p, syst, code,
                   callp, psig, uret, hist>>

\* mrs r0, MSP
T67_mrs ==
    /\ pc = "t67"
    /\ r' = [r EXCEPT ![0] = msp]
    /\ pc' = "t68"
    /\ UNCHANGED <<intr, msp, psp, ustack, ustackAt, ksave, frame, fp, u, p,
                   syst, code, callp, psig, uret, hist>>

\* bl syscall
T68_bl ==
    /\ pc = "t68"
    /\ fp' = r[0]
    /\ frame0' = frame
    /\ stimeIn' = u.ru_stime
    /\ dirtyIn' = (u.u_error # Zero32 /\ u.u_rval # Zero32)
    /\ pc' = "s93"
    /\ UNCHANGED <<intr, r, msp, psp, ustack, ustackAt, ksave, frame, u, p,
                   syst, code, callp, psig, uret, ckpt, rvalH, frameH, calls,
                   sigs, rets, reads, aborted>>

\* ------------------------------------------------------------------------
\* syscall(frame)
\* ------------------------------------------------------------------------

\* mutant: the comparison taken as <=
StackOverflow_Le(f) == ~Lt32(UEnd, f)

\* (unsigned) frame < (unsigned) &u + sizeof(u)
StackOverflow(f) == Lt32(f, UEnd)

\* mutant: interrupts are enabled before the kernel stack is checked
S93_entry_EnableFirst ==
    /\ pc = "s93"
    /\ syst' = u.ru_stime
    /\ intr' = TRUE
    /\ pc' = IF StackOverflow(fp) THEN "halted" ELSE "s106"
    /\ UNCHANGED <<r, msp, psp, ustack, ustackAt, ksave, frame, fp, u,
                   p, code, callp, psig, uret, hist>>

\* lines 93-98: sample the system time, check the kernel stack
S93_entry ==
    /\ pc = "s93"
    /\ syst' = u.ru_stime
    /\ pc' = IF StackOverflow(fp) THEN "halted" ELSE "s106"
    /\ UNCHANGED <<intr, r, msp, psp, ustack, ustackAt, ksave, frame, fp, u,
                   p, code, callp, psig, uret, hist>>

\* line 106: arm_intr_enable()
S106_intr_enable ==
    /\ pc = "s106"
    /\ intr' = TRUE
    /\ pc' = "s108"
    /\ UNCHANGED <<r, msp, psp, ustack, ustackAt, ksave, frame, fp, u, p,
                   syst, code, callp, psig, uret, hist>>

\* mutant: the trap instruction taken to be 4 bytes wide
CodeAddr_Word(fr) == Sub32(fr.tf_pc, W(0, 4))

\* u.u_frame->tf_pc - INSN_SZ
CodeAddr(fr) == Sub32(fr.tf_pc, INSN_SZ)

\* mutant: the error code is not reset
S108_NoReset ==
    /\ pc = "s108"
    /\ u' = [u EXCEPT !.u_frame = fp, !.u_code = CodeAddr(frame)]
    /\ pc' = "s115"
    /\ UNCHANGED <<intr, r, msp, psp, ustack, ustackAt, ksave, frame, fp, p,
                   syst, code, callp, psig, uret, hist>>

\* lines 108-110
S108_bookkeeping ==
    /\ pc = "s108"
    /\ u' = [u EXCEPT !.u_error = Zero32, !.u_frame = fp,
                      !.u_code = CodeAddr(frame)]
    /\ pc' = "s115"
    /\ UNCHANGED <<intr, r, msp, psp, ustack, ustackAt, ksave, frame, fp, p,
                   syst, code, callp, psig, uret, hist>>

\* mutant: the comparison taken as <=
StackTrashed_Le(sp, daddr, dsize) == ~Lt32(Add32(daddr, dsize), sp)

\* sp < u.u_procp->p_daddr + u.u_dsize
StackTrashed(sp, daddr, dsize) == Lt32(sp, Add32(daddr, dsize))

\* mutant: the bookkeeping is assigned without the comparison
StackGrows_Always(sp, ssize) == TRUE

\* u.u_procp->p_ssize < USER_DATA_END - sp
StackGrows(sp, ssize) == Lt32(ssize, Sub32(USER_DATA_END, sp))

\* lines 115-127
S115_check_stack ==
    /\ pc = "s115"
    /\ LET sp == frame.tf_sp
       IN  IF StackTrashed(sp, p.p_daddr, u.u_dsize)
           THEN /\ psig' = SIGSEGV
                /\ pc' = "s187"
                /\ UNCHANGED <<u, p>>
           ELSE /\ IF StackGrows(sp, p.p_ssize)
                   THEN /\ p' = [p EXCEPT !.p_ssize = Sub32(USER_DATA_END, sp),
                                          !.p_saddr = sp]
                        /\ u' = [u EXCEPT !.u_ssize = Sub32(USER_DATA_END, sp)]
                   ELSE UNCHANGED <<u, p>>
                /\ pc' = "s129"
                /\ UNCHANGED psig
    /\ UNCHANGED <<intr, r, msp, psp, ustack, ustackAt, ksave, frame, fp,
                   syst, code, callp, uret, hist>>

\* *(int *)u.u_code & 0377
DecodeCode(addr) == And16(UserWord(addr)[2], 255)

\* mutant: the bound check taken as <=
SelectEntry_Le(c) == IF c <= nsysent THEN c ELSE 0

\* callp = &sysent[0]; if (code < nsysent) callp += code;
SelectEntry(c) == IF c < nsysent THEN c ELSE 0

\* lines 129-134
S129_decode ==
    /\ pc = "s129"
    /\ code' = DecodeCode(u.u_code)
    /\ callp' = SelectEntry(DecodeCode(u.u_code))
    /\ pc' = "s136"
    /\ UNCHANGED <<intr, r, msp, psp, ustack, ustackAt, ksave, frame, fp, u,
                   p, syst, psig, uret, hist>>

\* mutant: the padding word is never skipped
StkAlign_None(psr) == 0

\* stkalign: 4 when the frame's psr has the alignment-padding bit
StkAlign(psr) == IF And32(psr, SCB_CCR_STKALIGN_Msk) # Zero32 THEN 4 ELSE 0

\* (u.u_frame->tf_sp + off + stkalign) & ~3
ArgAddr(sp, off, stkalign) ==
    And32(Add32(Add32(sp, W(0, off)), W(0, stkalign)), Not32(W(0, 3)))

\* mutant: a stack argument whose address fails the check is read as 0
DecodeArgs_ZeroBad(narg, fr, args) ==
    IF narg = 0 THEN args
    ELSE LET a5 == ArgAddr(fr.tf_sp, 32, StkAlign(fr.tf_psr))
             a6 == ArgAddr(fr.tf_sp, 36, StkAlign(fr.tf_psr))
         IN  [i \in 0 .. 5 |->
                CASE i = 0 -> fr.tf_r0
                  [] i = 1 -> fr.tf_r1
                  [] i = 2 -> fr.tf_r2
                  [] i = 3 -> fr.tf_r3
                  [] i = 4 -> IF narg > 4
                              THEN (IF baduaddr(a5) THEN Zero32 ELSE UserWord(a5))
                              ELSE args[4]
                  [] i = 5 -> IF narg > 5
                              THEN (IF baduaddr(a6) THEN Zero32 ELSE UserWord(a6))
                              ELSE args[5]]

\* lines 136-160: the argument slots after decoding for an entry of narg
\* arguments
DecodeArgs(narg, fr, args) ==
    IF narg = 0 THEN args
    ELSE LET a5 == ArgAddr(fr.tf_sp, 32, StkAlign(fr.tf_psr))
             a6 == ArgAddr(fr.tf_sp, 36, StkAlign(fr.tf_psr))
         IN  [i \in 0 .. 5 |->
                CASE i = 0 -> fr.tf_r0
                  [] i = 1 -> fr.tf_r1
                  [] i = 2 -> fr.tf_r2
                  [] i = 3 -> fr.tf_r3
                  [] i = 4 -> IF narg > 4 /\ ~baduaddr(a5)
                              THEN UserWord(a5) ELSE args[4]
                  [] i = 5 -> IF narg > 5 /\ ~baduaddr(a6)
                              THEN UserWord(a6) ELSE args[5]]

S136_args ==
    /\ pc = "s136"
    /\ reads' = reads \cup {callp}
    /\ u' = [u EXCEPT !.u_arg = DecodeArgs(SysentAt(callp).sy_narg, frame, @)]
    /\ pc' = "s162"
    /\ UNCHANGED <<intr, r, msp, psp, ustack, ustackAt, ksave, frame, fp, p,
                   syst, code, callp, psig, uret, frame0, stimeIn, dirtyIn, ckpt, rvalH,
                   frameH, calls, sigs, rets, aborted>>

\* mutant: the return value is not reset
S162_NoReset ==
    /\ pc = "s162"
    /\ pc' = "s164"
    /\ UNCHANGED <<intr, r, msp, psp, ustack, ustackAt, ksave, frame, fp, u, p,
                   syst, code, callp, psig, uret, hist>>

\* line 162
S162_rval ==
    /\ pc = "s162"
    /\ u' = [u EXCEPT !.u_rval = Zero32]
    /\ pc' = "s164"
    /\ UNCHANGED <<intr, r, msp, psp, ustack, ustackAt, ksave, frame, fp, p,
                   syst, code, callp, psig, uret, hist>>

\* mutant: the result of setjmp is not tested
Resume_Reinvoke(ret) == "s165"

\* if (setjmp(&u.u_qsave) == 0) <call>;  <switch>
\* where control goes when setjmp returns ret
Resume(ret) == IF ret = 0 THEN "s165" ELSE "s168"

\* line 164: the checkpoint is taken, setjmp returns 0
S164_setjmp ==
    /\ pc = "s164"
    /\ u' = [u EXCEPT !.u_qsave = "s164"]
    /\ ckpt' = TRUE
    /\ pc' = Resume(0)
    /\ UNCHANGED <<intr, r, msp, psp, ustack, ustackAt, ksave, frame, fp, p,
                   syst, code, callp, psig, uret, frame0, stimeIn, dirtyIn, rvalH,
                   frameH, calls, sigs, rets, reads, aborted>>

\* line 165: (*callp->sy_call)()
S165_call ==
    /\ pc = "s165"
    /\ calls' = Append(calls, SysentAt(callp).sy_call)
    /\ reads' = reads \cup {callp}
    /\ pc' = "h_run"
    /\ UNCHANGED <<intr, r, msp, psp, ustack, ustackAt, ksave, frame, fp, u,
                   p, syst, code, callp, psig, uret, frame0, stimeIn, dirtyIn, ckpt,
                   rvalH, frameH, sigs, rets, aborted>>

\* ------------------------------------------------------------------------
\* The selected handler and signal delivery (collaborators of syscall())
\* ------------------------------------------------------------------------

\* A register context a handler may store into the frame (as the return
\* from a signal handler does).
SigContext ==
    [tf_r0 |-> W(0, 99), tf_r1 |-> W(0, 21), tf_r2 |-> W(0, 22),
     tf_r3 |-> W(0, 23), tf_sp |-> Sub32(USER_DATA_END, W(0, 104)),
     tf_lr |-> W(2050, 769), tf_pc |-> W(2050, 512), tf_psr |-> W(8192 + 256, 0)]

\* The handler body: it may set the return value and the error code and may
\* write the frame through u.u_frame.
HandlerWork ==
    /\ pc = "h_run"
    /\ \E rv \in RvalSet \cup {u.u_rval}, er \in HandlerErrs \cup {u.u_error},
          fw \in BOOLEAN :
          /\ u' = [u EXCEPT !.u_rval = rv, !.u_error = er]
          /\ frame' = IF fw THEN SigContext ELSE frame
    /\ pc' = "h_done"
    /\ UNCHANGED <<intr, r, msp, psp, ustack, ustackAt, ksave, fp, p, syst,
                   code, callp, psig, uret, hist>>

\* The handler returns to syscall().
HandlerReturn ==
    /\ pc = "h_done"
    /\ frameH' = frame
    /\ rvalH' = u.u_rval
    /\ pc' = "s168"
    /\ UNCHANGED <<intr, r, msp, psp, ustack, ustackAt, ksave, frame, fp, u,
                   p, syst, code, callp, psig, uret, frame0, stimeIn, dirtyIn, ckpt,
                   calls, sigs, rets, reads, aborted>>

\* Signal delivery interrupts the handler: it sets the error code and jumps
\* to the checkpoint, where setjmp returns nonzero.
SignalAbort ==
    /\ pc \in {"h_run", "h_done"}
    /\ ckpt
    /\ u.u_qsave = "s164"
    /\ \E er \in AbortErrs : u' = [u EXCEPT !.u_error = er]
    /\ aborted' = TRUE
    /\ frameH' = frame
    /\ rvalH' = u.u_rval
    /\ pc' = Resume(1)
    /\ UNCHANGED <<intr, r, msp, psp, ustack, ustackAt, ksave, frame, fp, p,
                   syst, code, callp, psig, uret, frame0, stimeIn, dirtyIn, ckpt, calls,
                   sigs, rets, reads>>

\* ------------------------------------------------------------------------
\* syscall(), result encoding and exit
\* ------------------------------------------------------------------------

\* mutant: the success case leaves the carry bit alone
Encode_KeepCarry(err, rval, fr) ==
    CASE err = Zero32 -> [fr EXCEPT !.tf_r0 = rval]
      [] err = ERESTART -> [fr EXCEPT !.tf_pc = Sub32(@, INSN_SZ)]
      [] err = EJUSTRETURN -> fr
      [] OTHER -> [fr EXCEPT !.tf_psr = Or32(@, PSR_C), !.tf_r0 = err]

\* mutant: the error case returns u.u_rval
Encode_ErrRval(err, rval, fr) ==
    CASE err = Zero32 ->
            [fr EXCEPT !.tf_psr = And32(@, Not32(PSR_C)), !.tf_r0 = rval]
      [] err = ERESTART -> [fr EXCEPT !.tf_pc = Sub32(@, INSN_SZ)]
      [] err = EJUSTRETURN -> fr
      [] OTHER -> [fr EXCEPT !.tf_psr = Or32(@, PSR_C), !.tf_r0 = rval]

\* mutant: the restart case rewinds by a 4-byte instruction
Encode_RestartWord(err, rval, fr) ==
    CASE err = Zero32 ->
            [fr EXCEPT !.tf_psr = And32(@, Not32(PSR_C)), !.tf_r0 = rval]
      [] err = ERESTART -> [fr EXCEPT !.tf_pc = Sub32(@, W(0, 4))]
      [] err = EJUSTRETURN -> fr
      [] OTHER -> [fr EXCEPT !.tf_psr = Or32(@, PSR_C), !.tf_r0 = err]

\* mutant: no case for EJUSTRETURN, which falls to the default
Encode_NoJustReturn(err, rval, fr) ==
    CASE err = Zero32 ->
            [fr EXCEPT !.tf_psr = And32(@, Not32(PSR_C)), !.tf_r0 = rval]
      [] err = ERESTART -> [fr EXCEPT !.tf_pc = Sub32(@, INSN_SZ)]
      [] OTHER -> [fr EXCEPT !.tf_psr = Or32(@, PSR_C), !.tf_r0 = err]

\* lines 168-182: the frame after  switch (u.u_error)
Encode(err, rval, fr) ==
    CASE err = Zero32 ->
            [fr EXCEPT !.tf_psr = And32(@, Not32(PSR_C)), !.tf_r0 = rval]
      [] err = ERESTART ->
            [fr EXCEPT !.tf_pc = Sub32(@, INSN_SZ)]
      [] err = EJUSTRETURN ->
            fr
      [] OTHER ->
            [fr EXCEPT !.tf_psr = Or32(@, PSR_C), !.tf_r0 = err]

S168_encode ==
    /\ pc = "s168"
    /\ frame' = Encode(u.u_error, u.u_rval, frame)
    /\ pc' = "s190"
    /\ UNCHANGED <<intr, r, msp, psp, ustack, ustackAt, ksave, fp, u, p, syst,
                   code, callp, psig, uret, hist>>

\* mutant: the label bad placed before the switch, so that the fault path
\* runs through result encoding
S187_bad_Encode ==
    /\ pc = "s187"
    /\ sigs' = Append(sigs, <<"u_procp", psig>>)
    /\ pc' = "s168"
    /\ UNCHANGED <<intr, r, msp, psp, ustack, ustackAt, ksave, frame, fp, u,
                   p, syst, code, callp, psig, uret, frame0, stimeIn, dirtyIn,
                   ckpt, rvalH, frameH, calls, rets, reads, aborted>>

\* line 187: psignal(u.u_procp, psig)
S187_bad ==
    /\ pc = "s187"
    /\ sigs' = Append(sigs, <<"u_procp", psig>>)
    /\ pc' = "s190"
    /\ UNCHANGED <<intr, r, msp, psp, ustack, ustackAt, ksave, frame, fp, u,
                   p, syst, code, callp, psig, uret, frame0, stimeIn, dirtyIn, ckpt,
                   rvalH, frameH, calls, rets, reads, aborted>>

\* mutant: the system time is read at exit
UserretArgs_Now(fr, st, now) == <<fr.tf_pc, now>>

\* the arguments of  userret(u.u_frame->tf_pc, syst)
UserretArgs(fr, st, now) == <<fr.tf_pc, st>>

\* lines 190-193: userret(), then return to the trampoline; the caller-saved
\* registers come back undefined
S190_out ==
    /\ pc = "s190"
    /\ rets' = Append(rets, UserretArgs(frame, syst, u.ru_stime))
    /\ r' = [i \in 0 .. 12 |-> IF i \in {0, 1, 2, 3, 12} THEN Junk ELSE r[i]]
    /\ pc' = "t70"
    /\ UNCHANGED <<intr, msp, psp, ustack, ustackAt, ksave, frame, fp, u, p,
                   syst, code, callp, psig, uret, frame0, stimeIn, dirtyIn, ckpt, rvalH,
                   frameH, calls, sigs, reads, aborted>>

\* ------------------------------------------------------------------------
\* PendSV_Handler, restore phase (lines 70-81)
\* ------------------------------------------------------------------------

\* pop {r2-r9}
T70_pop ==
    /\ pc = "t70"
    /\ r' = LoadRegs(r, 2, WordsOf(frame))
    /\ msp' = Add32(msp, W(0, 32))
    /\ pc' = "t71"
    /\ UNCHANGED <<intr, psp, ustack, ustackAt, ksave, frame, fp, u, p, syst,
                   code, callp, psig, uret, hist>>

\* mutant: the stack pointer taken from the register next to r6
T71_mov_r5 ==
    /\ pc = "t71"
    /\ r' = [r EXCEPT ![1] = r[5]]
    /\ pc' = "t72"
    /\ UNCHANGED <<intr, msp, psp, ustack, ustackAt, ksave, frame, fp, u, p,
                   syst, code, callp, psig, uret, hist>>

\* mov r1, r6
T71_mov ==
    /\ pc = "t71"
    /\ r' = [r EXCEPT ![1] = r[6]]
    /\ pc' = "t72"
    /\ UNCHANGED <<intr, msp, psp, ustack, ustackAt, ksave, frame, fp, u, p,
                   syst, code, callp, psig, uret, hist>>

\* stmia r1, {r2-r9}
T72_stmia ==
    /\ pc = "t72"
    /\ ustack' = RegWords(r, 2, 9)
    /\ ustackAt' = r[1]
    /\ pc' = "t73"
    /\ UNCHANGED <<intr, r, msp, psp, ksave, frame, fp, u, p, syst, code,
                   callp, psig, uret, hist>>

\* msr PSP, r1
T73_msr ==
    /\ pc = "t73"
    /\ psp' = r[1]
    /\ pc' = "t74"
    /\ UNCHANGED <<intr, r, msp, ustack, ustackAt, ksave, frame, fp, u, p,
                   syst, code, callp, psig, uret, hist>>

\* pop {r4-r11}
T74_pop ==
    /\ pc = "t74"
    /\ r' = LoadRegs(r, 4, ksave)
    /\ msp' = Add32(msp, W(0, 32))
    /\ ksave' = <<>>
    /\ pc' = "t81"
    /\ UNCHANGED <<intr, psp, ustack, ustackAt, frame, fp, u, p, syst, code,
                   callp, psig, uret, hist>>

\* mov lr, #0xFFFFFFFD and the exception return: the hardware pops r0-r3,
\* ip, lr, pc, psr from the process stack and resumes Thread Mode.
T81_return ==
    /\ pc = "t81"
    /\ psp = ustackAt
    /\ r' = [i \in 0 .. 12 |->
               CASE i \in 0 .. 3 -> ustack[i + 1]
                 [] i = 12 -> ustack[5]
                 [] OTHER -> r[i]]
    /\ uret' = [lr |-> ustack[6], pc |-> ustack[7], psr |-> ustack[8],
                sp |-> Add32(psp, W(0, 32 + StkAlign(ustack[8])))]
    /\ pc' = "user"
    /\ UNCHANGED <<intr, msp, psp, ustack, ustackAt, ksave, frame, fp, u, p,
                   syst, code, callp, psig, hist>>

\* ------------------------------------------------------------------------
\* The system
\* ------------------------------------------------------------------------

Next ==
    \/ Trap
    \/ SVC_Handler
    \/ Interrupt
    \/ T55_cpsid
    \/ T61_push
    \/ T62_mrs
    \/ T63_ldmfd
    \/ T64_mov
    \/ T65_push
    \/ T67_mrs
    \/ T68_bl
    \/ S93_entry
    \/ S106_intr_enable
    \/ S108_bookkeeping
    \/ S115_check_stack
    \/ S129_decode
    \/ S136_args
    \/ S162_rval
    \/ S164_setjmp
    \/ S165_call
    \/ HandlerWork
    \/ HandlerReturn
    \/ SignalAbort
    \/ S168_encode
    \/ S187_bad
    \/ S190_out
    \/ T70_pop
    \/ T71_mov
    \/ T72_stmia
    \/ T73_msr
    \/ T74_pop
    \/ T81_return

Spec == Init /\ [][Next]_vars

\* ------------------------------------------------------------------------
\* Properties
\* ------------------------------------------------------------------------

\* the carry/error bit (bit 29) of a status register value: 0 or 1
Carry(psr) == (psr[1] \div 8192) % 2

\* a 32-bit value less one 2-byte instruction, modulo 2^32
LessOneInsn(a) ==
    IF a[2] >= 2 THEN <<a[1], a[2] - 2>>
    ELSE <<(a[1] + 65535) % 65536, a[2] + 65534>>

\* syscall() has returned from a trap in which the handler was invoked, so
\* that result encoding was applied: frame is the post-dispatch frame,
\* frame0 the pre-dispatch frame, frameH the frame as the handler left it.
Dispatched == pc = "t70" /\ calls # <<>>

\* the other error codes the result encoding is tried on
ErrSamples == { W(0, 1), EINTR, EFAULT, W(0, 255), W(32767, 65535), W(65535, 65533) }

\* C1: whenever result encoding is reached with error code 0 and return
\* value V, the post-dispatch frame has the carry bit clear and r0 = V,
\* whatever the table entry and whatever the handler wrote to the frame.
C1_SuccessEncoding ==
    (Dispatched /\ u.u_error = Zero32) =>
        /\ Carry(frame.tf_psr) = 0
        /\ frame.tf_r0 = rvalH
        /\ rvalH = u.u_rval

\* C1: the 3-argument entry returned 7 with error 0 from a trap that
\* entered with the carry bit set.
C1_Witness ==
    /\ Dispatched
    /\ u.u_error = Zero32
    /\ callp = 1
    /\ SysentAt(callp).sy_narg = 3
    /\ rvalH = W(0, 7)
    /\ Carry(frame0.tf_psr) = 1
    /\ frame.tf_r0 = W(0, 7)

\* C2: for every nonzero error code E other than ERESTART and EJUSTRETURN
\* the post-dispatch frame has the carry bit set and r0 = E, and its return
\* address is the one the frame held when result encoding started.
C2_ErrorEncoding ==
    /\ (Dispatched /\ u.u_error \notin {Zero32, ERESTART, EJUSTRETURN}) =>
          /\ Carry(frame.tf_psr) = 1
          /\ frame.tf_r0 = u.u_error
          /\ frame.tf_pc = frameH.tf_pc
    /\ pc = "s168" =>
          \A e \in ErrSamples :
             LET f == Encode(e, u.u_rval, frame)
             IN  Carry(f.tf_psr) = 1 /\ f.tf_r0 = e /\ f.tf_pc = frame.tf_pc

\* C2: a handler failed with EINTR after returning value 7, in a trap that
\* entered with the carry bit clear.
C2_Witness ==
    /\ Dispatched
    /\ ~aborted
    /\ u.u_error = EINTR
    /\ rvalH = W(0, 7)
    /\ Carry(frame0.tf_psr) = 0
    /\ frame.tf_r0 = EINTR
    /\ frame.tf_pc = frame0.tf_pc

\* C3 as stated: on restart the post-dispatch return address is the
\* pre-dispatch return address less one instruction, and carry bit and r0
\* are as the handler left them.
C3_RestartFromPreDispatch ==
    (Dispatched /\ u.u_error = ERESTART) =>
        /\ frame.tf_pc = LessOneInsn(frame0.tf_pc)
        /\ frame.tf_psr = frameH.tf_psr
        /\ frame.tf_r0 = frameH.tf_r0

\* C3, amended: on restart the post-dispatch return address is the return
\* address the frame held when result encoding started (the pre-dispatch
\* one unless the handler wrote it) less one instruction; every other field,
\* carry bit and r0 included, is as the handler left it.
C3_RestartEncoding ==
    (Dispatched /\ u.u_error = ERESTART) =>
        /\ frame.tf_pc = LessOneInsn(frameH.tf_pc)
        /\ frame = [frameH EXCEPT !.tf_pc = frame.tf_pc]
        /\ (frameH.tf_pc = frame0.tf_pc => frame.tf_pc = LessOneInsn(frame0.tf_pc))

\* C3: a restart after the handler stored a register context in the frame.
C3_Witness ==
    /\ Dispatched
    /\ u.u_error = ERESTART
    /\ frameH = SigContext
    /\ frameH.tf_pc # frame0.tf_pc
    /\ frame.tf_pc = LessOneInsn(SigContext.tf_pc)
    /\ frame.tf_r0 = SigContext.tf_r0

\* the frame is the pre-dispatch frame at every step of syscall() that
\* precedes the handler body
FrameUntouchedBeforeHandler ==
    pc \in {"s93", "s106", "s108", "s115", "s129", "s136", "s162", "s164",
            "s165", "h_run", "s187"} => frame = frame0

\* C4 as stated: on EJUSTRETURN the whole frame is identical before and
\* after dispatch.
C4_FrameIdenticalAcrossDispatch ==
    (Dispatched /\ u.u_error = EJUSTRETURN) => frame = frame0

\* C4, amended: on EJUSTRETURN syscall() itself writes no field of the
\* frame: the post-dispatch frame is identical to the frame as the handler
\* left it, and so to the pre-dispatch frame whenever the handler did not
\* write to it.
C4_SuppressedReturnEncoding ==
    /\ (Dispatched /\ u.u_error = EJUSTRETURN) => frame = frameH
    /\ FrameUntouchedBeforeHandler

\* C4: EJUSTRETURN from a handler that stored a register context in the
\* frame, as the return from a signal handler does.
C4_Witness ==
    /\ Dispatched
    /\ u.u_error = EJUSTRETURN
    /\ frame0 # SigContext
    /\ frame = SigContext

\* positions of a trap after syscall() returned, up to the exception return
Returned == {"t70", "t71", "t72", "t73", "t74", "t81"}

\* positions inside syscall() from the syscall code decode to the switch
Dispatching == {"s129", "s136", "s162", "s164", "s165", "h_run", "h_done", "s168"}

\* p_daddr + u_dsize, the end of the data segment
DataSegEnd == Add32(p.p_daddr, u.u_dsize)

\* C5: a trap whose stack pointer equals the data-segment end raises no
\* fault and is dispatched; one whose stack pointer is below it posts
\* exactly one SIGSEGV to the current process and invokes no handler.
C5_UserStackBoundary ==
    /\ Len(sigs) <= 1
    /\ pc \in Dispatching => (~Lt32(frame0.tf_sp, DataSegEnd) /\ sigs = <<>>)
    /\ pc = "s187" => (Lt32(frame0.tf_sp, DataSegEnd) /\ calls = <<>>)
    /\ pc \in Returned =>
          IF Lt32(frame0.tf_sp, DataSegEnd)
          THEN sigs = << <<"u_procp", SIGSEGV>> >> /\ calls = <<>>
          ELSE sigs = <<>> /\ Len(calls) = 1
    /\ ~StackTrashed(DataSegEnd, p.p_daddr, u.u_dsize)
    /\ StackTrashed(Sub32(DataSegEnd, W(0, 1)), p.p_daddr, u.u_dsize)
    /\ StackTrashed(Zero32, p.p_daddr, u.u_dsize)

\* C5: a trap with the stack pointer exactly at the data-segment end was
\* dispatched without a signal.
C5_Witness ==
    /\ pc = "t70"
    /\ frame0.tf_sp = DataSegEnd
    /\ sigs = <<>>
    /\ Len(calls) = 1

\* C6, the states: a trap halts exactly when its frame address is below
\* &u + sizeof(u); a halted trap invoked no handler, posted no signal, called
\* no exit hook and restored nothing.
C6_HaltStates ==
    /\ pc = "halted" =>
          /\ Lt32(fp, UEnd)
          /\ calls = <<>> /\ sigs = <<>> /\ rets = <<>>
          /\ uret = NoUret
          /\ ustack = WordsOf([frame0 EXCEPT !.tf_sp = ustack[5]])
    /\ pc \in (Dispatching \cup Returned \cup {"s106", "s108", "s115", "s187", "s190"}) =>
          ~Lt32(fp, UEnd)
    /\ ~StackOverflow(UEnd)
    /\ StackOverflow(Sub32(UEnd, W(0, 1)))
    /\ StackOverflow(Sub32(UEnd, W(0, 4)))
    /\ StackOverflow(UBase)
    /\ StackOverflow(Zero32)

\* C6: a frame exactly at &u + sizeof(u) does not halt, a frame below it
\* halts, and a halted system takes no further step.
C6_KernelStackBoundary ==
    /\ []C6_HaltStates
    /\ [][pc = "halted" => pc' = "halted"]_vars

\* C6: a trap whose frame is exactly at &u + sizeof(u) ran to the end of
\* syscall().
C6_Witness ==
    /\ pc = "t70"
    /\ fp = UEnd
    /\ Len(rets) = 1

\* C7: interrupts are masked at every instruction of the capture phase
\* (lines 61-68) and of the restore phase (lines 70-74) of the trampoline.
C7_CopiesMasked ==
    pc \in {"t61", "t62", "t63", "t64", "t65", "t67", "t68",
            "t70", "t71", "t72", "t73", "t74"} => ~intr

\* The return convention applied to frame fr for error code err and return
\* value rval: success clears the carry bit and returns rval, a restart
\* rewinds the return address, a suppressed return changes nothing, any
\* other code sets the carry bit and returns the code.
Convention(err, rval, fr) ==
    CASE err = Zero32 ->
            [fr EXCEPT !.tf_psr = <<@[1] - 8192 * Carry(@), @[2]>>, !.tf_r0 = rval]
      [] err = ERESTART ->
            [fr EXCEPT !.tf_pc = LessOneInsn(@)]
      [] err = EJUSTRETURN ->
            fr
      [] OTHER ->
            [fr EXCEPT !.tf_psr = <<@[1] + 8192 * (1 - Carry(@)), @[2]>>, !.tf_r0 = err]

\* C8: the checkpoint is taken in this trap before the handler runs; a
\* jump to it never leads to a second invocation; the frame returned is the
\* return convention for the error code set by the jump, applied to the
\* frame and the return value as the handler had left them at the jump.
C8_CheckpointAbort ==
    /\ pc \in {"s165", "h_run", "h_done"} => (ckpt /\ u.u_qsave = "s164")
    /\ Len(calls) <= 1
    /\ aborted => (Len(calls) = 1 /\ pc \notin {"s164", "s165", "h_run", "h_done"})
    /\ (aborted /\ pc \in {"s168"} \cup {"s190"} \cup Returned) => u.u_rval = rvalH
    /\ (aborted /\ pc = "s168") => frame = frameH
    /\ (aborted /\ pc \in {"s190", "t70"}) =>
          frame = Convention(u.u_error, rvalH, frameH)
    /\ (~aborted /\ pc \in {"s190", "t70"} /\ calls # <<>>) =>
          frame = Convention(u.u_error, rvalH, frameH)

\* C8: a jump to the checkpoint with EINTR, after the handler had set the
\* return value to 7 and stored a register context in the frame: both
\* writes are still there and the error convention was applied on top.
C8_Witness ==
    /\ pc = "t70"
    /\ aborted
    /\ calls = <<"h3">>
    /\ u.u_error = EINTR
    /\ u.u_rval = W(0, 7)
    /\ frameH = SigContext
    /\ frame = [SigContext EXCEPT !.tf_r0 = EINTR]

\* C9: the syscall code is the low 8 bits of the word one instruction
\* before the return address; a code >= the table length selects entry 0, a
\* smaller code its own entry; only entries 0 .. length-1 are ever read.
C9_TableFallback ==
    /\ (pc \in (Dispatching \ {"s129"}) \/ (pc \in {"s190", "t70"} /\ calls # <<>>)) =>
          /\ code = UserWord(LessOneInsn(frame0.tf_pc))[2] % 256
          /\ callp = IF code >= Len(sysent) THEN 0 ELSE code
    /\ reads \subseteq 0 .. (Len(sysent) - 1)
    /\ calls # <<>> =>
          calls[1] = (IF code >= Len(sysent) THEN sysent[1] ELSE sysent[code + 1]).sy_call
    /\ pc = "s129" =>
          \A c \in 0 .. 255 :
             /\ SelectEntry(c) \in 0 .. (Len(sysent) - 1)
             /\ SysentAt(SelectEntry(c)) =
                   IF c >= Len(sysent) THEN sysent[1] ELSE sysent[c + 1]

\* C9: the code equal to the table length ran the handler of entry 0.
C9_Witness ==
    /\ pc = "h_run"
    /\ code = Len(sysent)
    /\ callp = 0
    /\ reads = {0}
    /\ calls = <<sysent[1].sy_call>>

\* C10: userret() is called exactly once in every trap that does not halt,
\* after result encoding or signal posting, with the frame's final return
\* address and the system time read at the entry of syscall().
C10_ExitHook ==
    /\ Len(rets) <= 1
    /\ pc \in ({"svc", "t55", "t61", "t62", "t63", "t64", "t65", "t67", "t68",
                "s93", "s106", "s108", "s115", "s187", "s190", "halted"}
               \cup Dispatching) => rets = <<>>
    /\ pc \in Returned =>
          /\ Len(rets) = 1
          /\ rets[1] = <<frame.tf_pc, stimeIn>>
          /\ IF calls # <<>>
             THEN /\ sigs = <<>>
                  /\ frame = Convention(u.u_error, rvalH, frameH)
             ELSE /\ Len(sigs) = 1
                  /\ frame = frame0
    /\ (pc = "user" /\ rets # <<>>) => rets[1] = <<uret.pc, stimeIn>>

\* C10: a restarted trap during which the clock ticked: the hook got the
\* rewound return address and the system time of before the tick.
C10_Witness ==
    /\ pc = "t70"
    /\ u.u_error = ERESTART
    /\ frameH.tf_pc = frame0.tf_pc
    /\ stimeIn = 0
    /\ u.ru_stime = 1
    /\ rets = << <<LessOneInsn(frame0.tf_pc), 0>> >>

\* the stack size a stack pointer implies, as line 122 computes it
ImpliedStack(sp) == Sub32(USER_DATA_END, sp)

\* C11, the steps: no step decreases p_ssize; the stack bookkeeping is
\* written by the stack check only; and when the stack pointer of the trap
\* implies (USER_DATA_END - sp, unsigned as in the code) no larger a stack than
\* recorded, the stack check leaves p_ssize, p_saddr and u_ssize as they are.
C11_GrowthStep ==
    /\ ~Lt32(p'.p_ssize, p.p_ssize)
    /\ (p' # p \/ u'.u_ssize # u.u_ssize) => pc = "s115"
    /\ (pc = "s115" /\ ~Lt32(p.p_ssize, ImpliedStack(frame.tf_sp))) =>
          (p' = p /\ u'.u_ssize = u.u_ssize)
    /\ (pc = "s115" /\ p' # p) =>
          /\ Lt32(p.p_ssize, p'.p_ssize)
          /\ p'.p_ssize = ImpliedStack(frame.tf_sp)
          /\ p'.p_saddr = frame.tf_sp
          /\ u'.u_ssize = p'.p_ssize

\* C11: over any sequence of traps p_ssize never decreases, and a trap whose
\* stack pointer implies a smaller stack than recorded leaves p_ssize,
\* p_saddr and u_ssize unchanged.
C11_StackGrowthMonotonic ==
    /\ [](u.u_ssize = p.p_ssize /\ ~Lt32(p.p_ssize, InitP.p_ssize))
    /\ [][C11_GrowthStep]_vars

\* C11: a trap with the stack pointer at the data-segment end, which
\* implies a stack of 40 bytes, was dispatched after an earlier trap had
\* recorded a larger stack: size, base and u_ssize are still those the
\* earlier trap recorded.
C11_Witness ==
    /\ pc = "s129"
    /\ frame.tf_sp = DataEnd
    /\ ImpliedStack(frame.tf_sp) = W(0, 40)
    /\ Lt32(ImpliedStack(frame.tf_sp), p.p_ssize)
    /\ p.p_saddr # frame.tf_sp
    /\ p.p_ssize = ImpliedStack(p.p_saddr)
    /\ u.u_ssize = p.p_ssize

\* the user-stack addresses of the fifth and the sixth argument of frame fr
Arg5Addr(fr) == ArgAddr(fr.tf_sp, 32, StkAlign(fr.tf_psr))
Arg6Addr(fr) == ArgAddr(fr.tf_sp, 36, StkAlign(fr.tf_psr))

\* the selected entry takes a stack argument whose address fails the check
BadStackArg(fr, entry) ==
    \/ entry.sy_narg > 4 /\ baduaddr(Arg5Addr(fr))
    \/ entry.sy_narg > 5 /\ baduaddr(Arg6Addr(fr))

\* C12, the steps: the argument slots are written by argument decoding only,
\* so what a slot holds when decoding starts is what it held before the trap;
\* decoding for an entry of more than four arguments leaves the fifth (sixth)
\* slot alone when its address fails the check, reads the word at the address
\* otherwise, loads the first four slots from the frame's registers, and
\* touches neither the error code nor the signals.
C12_ArgStep ==
    /\ u'.u_arg # u.u_arg => pc = "s136"
    /\ (pc = "s136" /\ pc' = "s162" /\ sysent[callp + 1].sy_narg > 4) =>
          LET narg == sysent[callp + 1].sy_narg
          IN  /\ baduaddr(Arg5Addr(frame)) => u'.u_arg[4] = u.u_arg[4]
              /\ ~baduaddr(Arg5Addr(frame)) => u'.u_arg[4] = UserWord(Arg5Addr(frame))
              /\ (narg > 5 /\ baduaddr(Arg6Addr(frame))) => u'.u_arg[5] = u.u_arg[5]
              /\ (narg > 5 /\ ~baduaddr(Arg6Addr(frame))) =>
                    u'.u_arg[5] = UserWord(Arg6Addr(frame))
              /\ narg = 5 => u'.u_arg[5] = u.u_arg[5]
              /\ u'.u_arg[0] = frame.tf_r0 /\ u'.u_arg[1] = frame.tf_r1
              /\ u'.u_arg[2] = frame.tf_r2 /\ u'.u_arg[3] = frame.tf_r3
              /\ u'.u_error = u.u_error
              /\ sigs' = sigs

\* C12, the states: a trap in which a stack argument's address failed the
\* check carries no error code and no signal up to the handler, and its
\* handler is invoked.
C12_ArgStates ==
    /\ (pc \in {"s162", "s164", "s165", "h_run"}
        /\ BadStackArg(frame0, sysent[callp + 1])) =>
          (u.u_error = Zero32 /\ sigs = <<>>)
    /\ (pc \in {"h_run", "h_done", "s168", "s190"} \cup Returned
        /\ calls # <<>>
        /\ BadStackArg(frame0, sysent[callp + 1])) =>
          (calls = <<sysent[callp + 1].sy_call>> /\ sigs = <<>>)
    /\ (pc \in {"s190"} \cup Returned /\ BadStackArg(frame0, sysent[callp + 1])) =>
          calls # <<>>

\* C12: for every entry of more than four arguments, a fifth (sixth)
\* argument whose user-stack address fails the validity check keeps the value
\* the slot held before the trap; no error code is set and no signal posted,
\* the other slots are decoded and the handler is invoked.
C12_StaleStackArgument ==
    /\ []C12_ArgStates
    /\ [][C12_ArgStep]_vars

\* C12: the six-argument entry, trapped with the padding bit set and the
\* stack pointer 40 bytes below the top: the fifth argument was read from the
\* last word of the region, the sixth address is past the end and its slot
\* still holds the word an earlier trap read into it; the handler runs.
C12_Witness ==
    /\ pc = "h_run"
    /\ sysent[callp + 1].sy_narg = 6
    /\ calls = <<"h3">>
    /\ ~baduaddr(Arg5Addr(frame0))
    /\ baduaddr(Arg6Addr(frame0))
    /\ u.u_arg[4] = UserWord(Sub32(USER_DATA_END, W(0, 4)))
    /\ u.u_arg[5] = UserWord(Sub32(USER_DATA_END, W(0, 4)))
    /\ u.u_arg[0] = frame0.tf_r0
    /\ u.u_error = Zero32
    /\ sigs = <<>>

\* a 32-bit value plus a small n, modulo 2^32
PlusSmall(a, n) ==
    <<(a[1] + ((a[2] + n) \div 65536)) % 65536, (a[2] + n) % 65536>>

\* a 32-bit value rounded down to a multiple of 4
RoundDown4(a) == <<a[1], a[2] - (a[2] % 4)>>

\* a status register value with the alignment-padding bit (bit 9) set to b
WithPadBit(psr, b) == <<psr[1], psr[2] - (((psr[2] \div 512) % 2) * 512) + (b * 512)>>

\* stack pointers the address computation is tried on: aligned and
\* unaligned, inside, at the ends of and above the user data region, and at
\* the top of the address space
SpSamples ==
    { DataEnd, PlusSmall(DataEnd, 1), PlusSmall(DataEnd, 2), PlusSmall(DataEnd, 3),
      Sub32(USER_DATA_END, W(0, 36)), Sub32(USER_DATA_END, W(0, 4)),
      USER_DATA_END, W(8191, 65500), W(8191, 65535), W(65535, 65496),
      W(65535, 65500), W(65535, 65535), Zero32 }

\* C13: for two frames that differ in the alignment-padding bit only, the
\* fifth and the sixth argument are read, with the bit set, from addresses 4
\* bytes above those with the bit clear, which are (sp + 32) and (sp + 36)
\* rounded down to a multiple of 4, all modulo 2^32; the words decoded in a
\* trap are the words at these addresses.
C13_AlignmentCorrection ==
    /\ pc = "s136" =>
          \A sp \in SpSamples \cup {frame.tf_sp} :
             LET clr == [frame EXCEPT !.tf_sp = sp, !.tf_psr = WithPadBit(@, 0)]
                 set == [frame EXCEPT !.tf_sp = sp, !.tf_psr = WithPadBit(@, 1)]
             IN  /\ Arg5Addr(clr) = RoundDown4(PlusSmall(sp, 32))
                 /\ Arg6Addr(clr) = RoundDown4(PlusSmall(sp, 36))
                 /\ Arg5Addr(set) = PlusSmall(Arg5Addr(clr), 4)
                 /\ Arg6Addr(set) = PlusSmall(Arg6Addr(clr), 4)
                 /\ frame \in {clr, set} \/ sp # frame.tf_sp
    /\ (pc \in {"s162", "s164", "s165", "h_run"} /\ sysent[callp + 1].sy_narg > 4) =>
          LET pad == 4 * ((frame0.tf_psr[2] \div 512) % 2)
              a5 == RoundDown4(PlusSmall(frame0.tf_sp, 32 + pad))
              a6 == RoundDown4(PlusSmall(frame0.tf_sp, 36 + pad))
          IN  /\ ~baduaddr(a5) => u.u_arg[4] = UserWord(a5)
              /\ (sysent[callp + 1].sy_narg > 5 /\ ~baduaddr(a6)) =>
                    u.u_arg[5] = UserWord(a6)

\* C13: the five-argument entry, trapped with the padding bit set: its
\* fifth argument is the word 36 bytes above the stack pointer.
C13_Witness ==
    /\ pc = "h_run"
    /\ sysent[callp + 1].sy_narg = 5
    /\ (frame0.tf_psr[2] \div 512) % 2 = 1
    /\ frame0.tf_sp = DataEnd
    /\ u.u_arg[4] = UserWord(PlusSmall(DataEnd, 36))
    /\ UserWord(PlusSmall(DataEnd, 36)) # UserWord(PlusSmall(DataEnd, 32))

\* positions of the trampoline and of syscall() at which cpsid i has been
\* executed and arm_intr_enable() has not
MaskedPositions ==
    {"t61", "t62", "t63", "t64", "t65", "t67", "t68", "s93", "s106"}

\* positions of syscall() after arm_intr_enable()
UnmaskedPositions ==
    {"s108", "s115", "s129", "s136", "s162", "s164", "s165", "h_run", "h_done",
     "s168", "s187", "s190"}

\* C14, the states: interrupts are masked from cpsid i up to
\* arm_intr_enable(), which is reached only with a frame that passed the
\* kernel-stack check; they are enabled at every later position of
\* syscall(); a halted trap has them masked.
C14_MaskStates ==
    /\ pc \in MaskedPositions => ~intr
    /\ pc = "halted" => (~intr /\ Lt32(fp, UEnd))
    /\ pc \in {"s106"} \cup UnmaskedPositions => ~Lt32(fp, UEnd)
    /\ pc \in UnmaskedPositions => intr

\* C14, the steps: interrupts are unmasked by arm_intr_enable() only, and
\* while they are masked no step writes the process context, posts a signal
\* or invokes a handler.
C14_MaskStep ==
    /\ (~intr /\ intr') => (pc = "s106" /\ pc' = "s108" /\ ~Lt32(fp, UEnd))
    /\ (intr /\ ~intr') => pc = "t55"
    /\ ~intr => (u' = u /\ p' = p /\ sigs' = sigs /\ calls' = calls)

\* C14: in every trap the dispatcher unmasks interrupts after the
\* kernel-stack overflow check has passed and before any write to the process
\* context, signal posting or handler invocation; on the halting path they
\* are never unmasked.
C14_UnmaskOrdering ==
    /\ []C14_MaskStates
    /\ [][C14_MaskStep]_vars

\* C14: interrupts have just been unmasked in a trap whose frame is exactly
\* at the end of u: the context still holds the error code and return value
\* of the previous trap, no signal is posted and no handler invoked.
C14_Witness ==
    /\ pc = "s108"
    /\ intr
    /\ fp = UEnd
    /\ dirtyIn
    /\ u.u_error # Zero32
    /\ u.u_rval # Zero32
    /\ sigs = <<>>
    /\ calls = <<>>

\* syscall() is running a trap whose user stack pointer is below the end
\* of the data segment, which no handler has been invoked for
FaultPath ==
    /\ pc \in {"s93", "s106", "s108", "s115", "s187", "s190"}
    /\ calls = <<>>
    /\ StackTrashed(frame.tf_sp, p.p_daddr, u.u_dsize)

\* C15, the steps: on the process-fault path no step of syscall() writes the
\* frame, the syscall code, the table pointer, an argument slot, the return
\* value, the stack bookkeeping or the checkpoint; the stack check goes to
\* signal posting, signal posting posts one signal and goes to the exit hook,
\* and the exit hook returns to the trampoline.
C15_FaultStep ==
    /\ FaultPath =>
          /\ frame' = frame
          /\ code' = code /\ callp' = callp /\ reads' = reads
          /\ u'.u_arg = u.u_arg /\ u'.u_rval = u.u_rval
          /\ u'.u_ssize = u.u_ssize /\ p' = p
          /\ u'.u_qsave = u.u_qsave /\ ckpt' = ckpt
          /\ calls' = calls
    /\ (FaultPath /\ pc = "s115" /\ pc' # pc) =>
          (pc' = "s187" /\ psig' = SIGSEGV /\ sigs' = sigs /\ rets' = rets)
    /\ (pc = "s187" /\ pc' # pc) =>
          (pc' = "s190" /\ sigs' = << <<"u_procp", SIGSEGV>> >> /\ rets' = rets)
    /\ (FaultPath /\ pc = "s190" /\ pc' # pc) =>
          (pc' = "t70" /\ sigs' = sigs /\ Len(rets') = 1)

\* C15, the states: from signal posting to the exception return the frame
\* is the frame passed to syscall(), and nothing of the dispatch has happened.
C15_FaultStates ==
    (pc = "s187" \/ (pc \in {"s190"} \cup Returned /\ sigs # <<>>)) =>
        /\ Lt32(frame0.tf_sp, DataSegEnd)
        /\ frame = frame0
        /\ code = 0 /\ callp = 0 /\ reads = {}
        /\ ~ckpt /\ ~aborted
        /\ calls = <<>>
        /\ u.u_error = Zero32

\* C15: when the user stack pointer is below the data-segment end, syscall()
\* leaves the frame unchanged, does not read the syscall code, writes no
\* argument slot, return value, stack bookkeeping or checkpoint, and goes
\* from signal posting straight to the exit hook.
C15_FaultPathFrameEffect ==
    /\ []C15_FaultStates
    /\ [][C15_FaultStep]_vars

\* C15: a faulting trap has returned from syscall(): the frame is the one
\* captured, the return value, the fifth argument slot and the checkpoint are
\* those of an earlier trap, one signal was posted and the hook called.
C15_Witness ==
    /\ pc = "t70"
    /\ sigs = << <<"u_procp", SIGSEGV>> >>
    /\ Len(rets) = 1
    /\ frame = frame0
    /\ Lt32(frame0.tf_sp, DataSegEnd)
    /\ dirtyIn
    /\ u.u_rval # Zero32
    /\ u.u_arg[4] # Zero32
    /\ u.u_qsave = "s164"
    /\ ~ckpt

\* C16, the states: from the stack check on, on the dispatch path and on
\* the process-fault path alike, u_frame is the frame passed to syscall() and
\* u_code the captured return address less one instruction; the error code is
\* 0 until the handler runs, and to the end of a faulting trap; a dispatched
\* trap that ends with error code 0 returns by the success convention
\* whatever the context held at entry.
C16_ResetStates ==
    /\ pc \in (UnmaskedPositions \ {"s108"}) \cup Returned =>
          /\ u.u_frame = fp
          /\ u.u_code = LessOneInsn(frame0.tf_pc)
    /\ pc \in {"s115", "s129", "s136", "s162", "s164", "s165", "h_run", "s187"} =>
          u.u_error = Zero32
    /\ (pc \in {"s190"} \cup Returned /\ calls = <<>>) => u.u_error = Zero32
    /\ (pc \in {"s190"} \cup Returned /\ calls # <<>> /\ u.u_error = Zero32) =>
          frame = Convention(Zero32, rvalH, frameH)

\* C16, the steps: the bookkeeping step sets the three fields whatever they
\* held, and a handler that returns without writing the error code returns
\* with error code 0.
C16_ResetStep ==
    /\ (pc = "s108" /\ pc' = "s115") =>
          /\ u'.u_error = Zero32
          /\ u'.u_frame = fp
          /\ u'.u_code = LessOneInsn(frame.tf_pc)
    /\ (pc = "h_run" /\ pc' = "h_done" /\ u'.u_error = u.u_error) =>
          u'.u_error = Zero32

\* C16: every trap that does not halt starts by recording the frame
\* pointer, setting the error code to 0 and recording the return address
\* less one instruction, on the fault path too; so a handler that leaves the
\* error code untouched gets the success convention even when the previous
\* trap ended with a nonzero error code.
C16_PerTrapErrorReset ==
    /\ []C16_ResetStates
    /\ [][C16_ResetStep]_vars

\* C16: the previous trap had ended with a nonzero error code; this one,
\* entered with the carry bit set, was dispatched, its handler left the error
\* code alone, and the frame has the carry bit clear and the return value.
C16_Witness ==
    /\ pc = "t70"
    /\ dirtyIn
    /\ calls # <<>>
    /\ ~aborted
    /\ u.u_error = Zero32
    /\ u.u_frame = fp
    /\ Carry(frame0.tf_psr) = 1
    /\ Carry(frame.tf_psr) = 0
    /\ frame.tf_r0 = rvalH

\* the trap was dispatched and ends with ERESTART, and the return address
\* in the frame when result encoding started was the captured one
RestartedInPlace ==
    /\ calls # <<>>
    /\ u.u_error = ERESTART
    /\ frameH.tf_pc = frame0.tf_pc

\* the frame the hardware stacks when the svc instruction at address a
\* traps from the context of frame fr: the return address is the address of
\* the next instruction
Retrapped(fr, a) == [fr EXCEPT !.tf_pc = PlusSmall(a, 2)]

\* C17: a trap that ends with ERESTART without the handler having changed
\* the frame's return address returns to the address its syscall code was
\* decoded from (u_code), where the same svc instruction stands; the trap it
\* raises on resume has the return address of the original trap, decodes the
\* same code and selects the same table entry.
C17_RestartSameTrap ==
    /\ (pc \in {"s190"} \cup Returned /\ RestartedInPlace) =>
          /\ frame.tf_pc = u.u_code
          /\ PlusSmall(frame.tf_pc, 2) = frame0.tf_pc
          /\ \E s \in SvcSites : s[1] = frame.tf_pc /\ s[2] = code
    /\ (pc = "user" /\ RestartedInPlace /\ rets # <<>>) =>
          /\ uret.pc = u.u_code
          /\ Retrapped(frame0, uret.pc).tf_pc = frame0.tf_pc
          /\ Retrapped(frame0, uret.pc).tf_pc \in TrapPCs
          /\ DecodeCode(CodeAddr(Retrapped(frame0, uret.pc))) = code
          /\ SelectEntry(DecodeCode(CodeAddr(Retrapped(frame0, uret.pc)))) = callp

\* C17: the user thread resumes after a restarted trap of code 3 at the
\* address of its svc instruction.
C17_Witness ==
    /\ pc = "user"
    /\ rets # <<>>
    /\ RestartedInPlace
    /\ code = 3
    /\ calls = <<"h3">>
    /\ uret.pc = u.u_code
    /\ UserWord(uret.pc)[2] = 57088 + 3
    /\ uret.pc = LessOneInsn(frame0.tf_pc)

\* the largest stack the data-segment check allows: the top of the user
\* data region less the end of the data segment
HardLimit == Sub32(USER_DATA_END, DataSegEnd)

\* C18: after a trap whose stack pointer passed the user-stack check, the
\* recorded stack size does not exceed the top of the user data region less
\* the data-segment end (unsigned 32-bit subtraction and comparison).
C18_WithinHardLimit ==
    (pc \in Dispatching \cup {"s190"} \cup Returned
     /\ ~Lt32(frame0.tf_sp, DataSegEnd)) =>
        ~Lt32(HardLimit, p.p_ssize)

\* the stack check grows the bookkeeping beyond the hard limit only for a
\* stack pointer above the top of the user data region
GrowthBeyondLimitOnlyAboveTop ==
    [][(pc = "s115" /\ p' # p /\ ~Lt32(USER_DATA_END, frame.tf_sp)) =>
          ~Lt32(HardLimit, p'.p_ssize)]_vars

\* C19, the states: the return value is 0 when the checkpoint is taken and
\* when the handler starts, the checkpoint not being taken before the reset;
\* a dispatched trap that ends with error code 0 and the return value as the
\* handler found it has 0 in the frame's first return register.
C19_RvalStates ==
    /\ pc \in {"s164", "s165", "h_run"} => u.u_rval = Zero32
    /\ pc \in {"s129", "s136", "s162", "s164"} => (~ckpt /\ calls = <<>>)
    /\ (pc \in {"s190"} \cup Returned /\ calls # <<>> /\ u.u_error = Zero32
        /\ rvalH = Zero32) => frame.tf_r0 = Zero32

\* C19, the steps: the reset follows argument decoding and sets the return
\* value to 0 whatever it was; a handler that returns without writing the
\* return value returns with 0.
C19_RvalStep ==
    /\ (pc = "s136" /\ pc' # pc) => pc' = "s162"
    /\ (pc = "s162" /\ pc' # pc) =>
          (pc' = "s164" /\ u'.u_rval = Zero32 /\ u'.u_arg = u.u_arg)
    /\ (pc = "h_run" /\ pc' = "h_done" /\ u'.u_rval = u.u_rval) =>
          (u'.u_rval = Zero32 /\ rvalH' = Zero32)

\* C19: u_rval is set to 0 after argument decoding and before the
\* checkpoint and the handler in every dispatched trap, so a handler that ends
\* with error code 0 without writing the return value returns 0 and not the
\* return value an earlier trap left.
C19_ReturnValueReset ==
    /\ []C19_RvalStates
    /\ [][C19_RvalStep]_vars

\* C19: the context held a nonzero return value of an earlier trap at
\* entry; the handler of this trap wrote neither error code nor return value,
\* and the frame returns 0 in place of the nonzero r0 it was entered with.
C19_Witness ==
    /\ pc = "t70"
    /\ dirtyIn
    /\ calls # <<>>
    /\ ~aborted
    /\ u.u_error = Zero32
    /\ u.u_rval = Zero32
    /\ rvalH = Zero32
    /\ frame0.tf_r0 # Zero32
    /\ frame.tf_r0 = Zero32

\* r4-r11 of the user thread at trap entry
CalleeSavedAtEntry == [i \in 4 .. 11 |-> W(51966, i)]

\* C20: after the restore phase the process stack pointer is the frame's
\* tf_sp and the eight words there are the frame as syscall() left it, so the
\* hardware pops r0-r3, lr, pc and psr equal to the frame's fields; r4-r11
\* are those of trap entry and the main stack pointer is that of trampoline
\* entry; with the frame untouched by syscall() these are the captured values.
C20_TrampolineRoundTrip ==
    /\ pc = "t81" =>
          /\ psp = frame.tf_sp
          /\ ustackAt = frame.tf_sp
          /\ ustack = WordsOf(frame)
          /\ \A i \in 4 .. 11 : r[i] = CalleeSavedAtEntry[i]
          /\ msp = PlusSmall(fp, 64)
          /\ msp \in MspSet
          /\ frame = frame0 => (psp = frame0.tf_sp /\ ustack = WordsOf(frame0))
    /\ (pc = "user" /\ rets # <<>>) =>
          /\ psp = frame.tf_sp
          /\ r[0] = frame.tf_r0 /\ r[1] = frame.tf_r1
          /\ r[2] = frame.tf_r2 /\ r[3] = frame.tf_r3
          /\ uret.lr = frame.tf_lr
          /\ uret.pc = frame.tf_pc
          /\ uret.psr = frame.tf_psr
          /\ \A i \in 4 .. 11 : r[i] = CalleeSavedAtEntry[i]
          /\ msp = PlusSmall(fp, 64)
          /\ frame = frame0 =>
                /\ psp = frame0.tf_sp
                /\ r[0] = frame0.tf_r0 /\ r[1] = frame0.tf_r1
                /\ r[2] = frame0.tf_r2 /\ r[3] = frame0.tf_r3
                /\ uret.lr = frame0.tf_lr
                /\ uret.pc = frame0.tf_pc
                /\ uret.psr = frame0.tf_psr

\* C20: the user thread resumes after a trap whose handler stored a
\* register context in the frame and returned EJUSTRETURN: stack pointer and
\* popped registers are those of the context, r4-r11 those of trap entry.
C20_Witness ==
    /\ pc = "user"
    /\ rets # <<>>
    /\ u.u_error = EJUSTRETURN
    /\ frame = SigContext
    /\ frame0.tf_sp # SigContext.tf_sp
    /\ psp = SigContext.tf_sp
    /\ r[0] = SigContext.tf_r0
    /\ uret.pc = SigContext.tf_pc
    /\ uret.psr = SigContext.tf_psr
    /\ r[4] = W(51966, 4) /\ r[11] = W(51966, 11)
    /\ msp = PlusSmall(fp, 64)

====
